---- MODULE Spec2Model ----
(***************************************************************************)
(* The audio fetch-and-cache path of YouSound in its three server          *)
(* variants:                                                               *)
(*   "index"  src/backend/index.js   NodeCache, four extraction strategies *)
(*   "start"  src/backend/start.sh   NodeCache, five extraction strategies *)
(*   "disk"   src/back/index.js      cache directory swept every hour      *)
(* Each variant is a program of its own; `server` says which one runs.     *)
(* Time is in milliseconds (Date.now()).  External tools (yt-dlp, curl,    *)
(* wget, ffmpeg, ytdl-core) are the environment: while a tool runs it may  *)
(* write the path it was given, and it ends with success or failure.       *)
(* A successful response is recorded with status 200; the Range branch of  *)
(* the responder (206) is built from the same buffer.                      *)
(***************************************************************************)
EXTENDS Integers, Sequences, FiniteSets, TLC

\* ---------------------------------------------------------------- bounds
MaxReq == 2         \* requests that arrive in one behaviour
MaxTicks == 1       \* NodeCache servers: times the clock advances
MaxWrites == 1      \* times an external tool writes a file in one behaviour
MaxRaceWrites == 2  \* the same where two extractions are to succeed side by side
MaxHours == 25      \* disk server: hours of wall-clock time explored
MaxFlowReq == 3     \* disk server without the clock: requests that arrive
MaxClears == 1      \* disk server without the clock: POSTs to /clear-cache
MaxTotal == 11      \* the responder alone: sizes 1..MaxTotal of a payload
MaxOver == 2        \* the limiter alone: requests of a client beyond max in a window
MaxWindows == 2     \* the limiter alone: windows of wall-clock time explored

\* ------------------------------------------------------ program constants
stdTTL == 3600      \* seconds, new NodeCache({ stdTTL: 3600 })
MIN_LENGTH == 1000  \* buffer.length < 1000
ID_LENGTH == 11     \* {11} of the identifier pattern
ONE_DAY == 24 * 60 * 60 * 1000
max == 30           \* max: 30 of rateLimit({...})
windowMs == 15 * 60 * 1000
SWEEP_INTERVAL == 60 * 60 * 1000

VARIABLES
  server,      \* which variant runs: "index", "start" or "disk"
  ids,         \* the identifiers clients ask for in this behaviour
  now,         \* Date.now()
  ticks,       \* how often the clock advanced
  nreq,        \* requests arrived so far
  writes,      \* writes by external tools so far
  reqs,        \* request number -> the state of its handler
  audioCache,  \* NodeCache: key -> [v, t] (t = expiry time in ms)
  tmpDir,      \* scratch directory of the NodeCache servers: path -> file
  CACHE_DIR,   \* cache directory of the disk server: path -> file
  nextSweep,   \* disk server: when setInterval(cleanCache) fires next
  cleared,     \* disk server: the last answer of POST /clear-cache
  res,         \* the responder alone: a payload, a Range header, the response
  apiLimiter,  \* the rate limiter's store and what it let through
  home,        \* frontend: the state of the Home component (page.jsx)
  player,      \* frontend: CustomAudioPlayer and its <audio> element
  voice        \* frontend: VoiceCommander and its SpeechRecognition

vars == <<server, ids, now, ticks, nreq, writes, reqs, audioCache, tmpDir, CACHE_DIR, nextSweep,
         cleared, res, apiLimiter, home, player, voice>>

\* ------------------------------------------------------------ identifiers
\* /^[a-zA-Z0-9_-]{11}$/ on a string given as its sequence of characters
IdChars ==
  {"a","b","c","d","e","f","g","h","i","j","k","l","m","n","o","p","q","r",
   "s","t","u","v","w","x","y","z","A","B","C","D","E","F","G","H","I","J",
   "K","L","M","N","O","P","Q","R","S","T","U","V","W","X","Y","Z","0","1",
   "2","3","4","5","6","7","8","9","_","-"}

IsValidId(id) == Len(id) = ID_LENGTH /\ \A i \in 1..Len(id) : id[i] \in IdChars

IdA == <<"d","Q","w","4","w","9","W","g","X","c","Q">>
IdShort == <<"a","b","c">>
IdB == <<"9","b","Z","k","p","7","q","1","9","f","0">>
IdBadChar == <<"d","Q","w","4","w","9","W","g","X","c","!">>
\* GET /audio/x%2F..%2FdQw4w9WgXcQ: the route parameter is URI-decoded
IdDots == <<"x", "/", ".", ".", "/">> \o IdA
AllIds == {IdA, IdB, IdShort, IdBadChar, IdDots}

Reqs == DOMAIN reqs

\* ------------------------------------------------------------------ files
\* A file's content is known by who wrote it (request `by`, strategy `k`)
\* and its size in bytes; on the disk server a file also has its mtime.
Absent == [by |-> 0, k |-> 0, len |-> -1]
Sizes == {MIN_LENGTH - 1, MIN_LENGTH}
Exists(f) == f.len >= 0

\* path.join(tmpDir, name) normalises the path: the name is cut at "/", a
\* segment "." or "" is dropped and ".." takes the segment before it away.
\* A path is known by its kind (the text put around the identifier) and the
\* normalised identifier: the last segment carries the suffix and stays.
RECURSIVE Segments(_, _, _)
Segments(s, i, cur) ==
  IF i > Len(s) THEN <<cur>>
  ELSE IF s[i] = "/" THEN <<cur>> \o Segments(s, i + 1, <<>>)
  ELSE Segments(s, i + 1, Append(cur, s[i]))

RECURSIVE Resolve(_, _)
Resolve(segs, out) ==
  IF segs = <<>> THEN out
  ELSE LET h == Head(segs)
           up == h = <<".", ".">> /\ out # <<>> /\ out[Len(out)] # <<".", ".">>
       IN Resolve(Tail(segs),
                  IF h = <<>> \/ h = <<".">> THEN out
                  ELSE IF up THEN SubSeq(out, 1, Len(out) - 1)
                  ELSE Append(out, h))

RECURSIVE Flatten(_)
Flatten(segs) ==
  IF Len(segs) = 1 THEN segs[1] ELSE segs[1] \o <<"/">> \o Flatten(Tail(segs))

pathJoin(id) ==
  LET segs == Segments(id, 1, <<>>)
  IN Flatten(Append(Resolve(SubSeq(segs, 1, Len(segs) - 1), <<>>), segs[Len(segs)]))

outputPath(id) == <<"mp3", pathJoin(id)>>        \* path.join(tmpDir, `${videoId}.mp3`)
tempFile(id) == <<"temp", pathJoin(id)>>         \* `${videoId}_temp`, `${videoId}_temp.webm`
tempScriptPath(id) == <<"script", pathJoin(id)>> \* `get_url_${videoId}.sh`
TmpPaths == {"mp3", "temp", "script"} \X {pathJoin(id) : id \in AllIds}

\* ------------------------------------------------------------- NodeCache
cacheKey(id) == <<"a","u","d","i","o","-">> \o id   \* `audio-${videoId}`
CacheKeys == {cacheKey(id) : id \in AllIds}
NoEntry == [v |-> Absent, t |-> -1]

\* a mutant of CacheSet: the TTL taken as milliseconds
CacheSetMillis(cache, key, v, t) ==
  [cache EXCEPT ![key] = [v |-> v, t |-> t + stdTTL]]

\* set(key, value): the entry expires stdTTL seconds after insertion
CacheSet(cache, key, v, t) ==
  [cache EXCEPT ![key] = [v |-> v, t |-> t + stdTTL * 1000]]

\* a mutant of CacheGet: a hit starts the entry's TTL anew
CacheGetSliding(cache, key, t) ==
  LET e == cache[key] IN
  IF e = NoEntry THEN [cache |-> cache, value |-> Absent]
  ELSE IF e.t < t THEN [cache |-> [cache EXCEPT ![key] = NoEntry], value |-> Absent]
  ELSE [cache |-> [cache EXCEPT ![key].t = t + stdTTL * 1000], value |-> e.v]

\* a mutant of CacheGet: no expiry check
CacheGetNoExpiry(cache, key, t) ==
  [cache |-> cache, value |-> cache[key].v]

\* get(key): an entry whose expiry time has passed is deleted and not returned
CacheGet(cache, key, t) ==
  LET e == cache[key] IN
  IF e = NoEntry THEN [cache |-> cache, value |-> Absent]
  ELSE IF e.t < t THEN [cache |-> [cache EXCEPT ![key] = NoEntry], value |-> Absent]
  ELSE [cache |-> cache, value |-> e.v]

\* --------------------------------------------------------------- requests
\* pc: where the handler is suspended.  The fields from `hit` on are history:
\*   tried     the strategies started, in order
\*   failed    the strategies that ended without a result
\*   okAt      the strategy whose output extractAudio returned (0: none)
\*   wroteAt   when this request called audioCache.set (-1: never)
\*   fresh     on arrival, an earlier request had cached this identifier at
\*             most stdTTL seconds before
\*   stale     on arrival, this identifier had been cached, and the last time
\*             more than stdTTL seconds before
\*   age       disk server: age of the cache file served on a hit
\*   ended     the response body has been ended
\*   heads     response heads (status line and headers) sent
\*   lateError a status was sent into a response whose head was out already
\*   msg       the text sent with a 500
\*   lastErr   the message of the last error caught in the chain
\*   thrown    the message of the error extractAudio threw
\*   postClear on arrival, the identifier had been cached at the last
\*             POST /clear-cache and had not been fetched since
\*   republished  on arrival, a conversion had put the identifier's cache file
\*             back since the last POST /clear-cache
\*   noCli     disk server: isYoutubeDlInstalled() was called and returned false
\*   hung      the external tool the request awaits has stalled for good
NoReq ==
  [pc |-> "idle", n |-> 0, videoId |-> <<>>, k |-> 0, buf |-> Absent, status |-> 0,
   body |-> Absent, headersSent |-> FALSE, hit |-> FALSE, tried |-> <<>>,
   failed |-> {}, okAt |-> 0, allFailed |-> FALSE, wroteAt |-> -1,
   fresh |-> FALSE, stale |-> FALSE, age |-> -1, ended |-> FALSE,
   heads |-> 0, lateError |-> FALSE, msg |-> <<>>, lastErr |-> "", thrown |-> "",
   postClear |-> FALSE, republished |-> FALSE, noCli |-> FALSE, hung |-> FALSE]

\* the texts of the errors and of the 500 answers
ALL_FAILED == "All extraction strategies failed. Could not download audio from YouTube."
TOO_SMALL == "Extracted audio file is too small or empty"
\* the rejection of execPromise (or, after --get-url, the throw on an empty URL)
CommandFailed(rq) == "Command failed"
\* ENOENT from readFile or unlinkSync
NoSuchFile(rq) == "ENOENT: no such file or directory"

NumStrategies == IF server = "start" THEN 5 ELSE 4

World(r) == [req |-> reqs[r], cache |-> audioCache, dir |-> tmpDir]

\* res.writeHead(...); res.end(...)  /  res.status(500).send(...)
Respond(w, status, buffer) ==
  IF w.req.headersSent
  THEN [w EXCEPT !.req.pc = "done", !.req.lateError = TRUE]
  ELSE [w EXCEPT !.req.pc = "done", !.req.status = status, !.req.body = buffer,
                 !.req.headersSent = TRUE, !.req.ended = TRUE,
                 !.req.heads = w.req.heads + 1]

\* a mutant of ExtractionFailed: the text of the outer catch, without the message
ExtractionFailedGeneric(w, message) ==
  [Respond(w, 500, Absent) EXCEPT !.req.msg = <<"Failed to load audio.">>]

\* catch (error) { return res.status(500).send('Failed to extract audio: ' + error.message) }
ExtractionFailed(w, message) ==
  [Respond(w, 500, Absent) EXCEPT !.req.msg = <<"Failed to extract audio: ", message>>]

\* a mutant of CachePut: every payload is stored under the key of one identifier
CachePutOneKey(w, buffer) ==
  [w EXCEPT !.cache = CacheSet(w.cache, cacheKey(IdA), buffer, now),
            !.req.wroteAt = now]

\* audioCache.set(cacheKey, buffer)
CachePut(w, buffer) ==
  [w EXCEPT !.cache = CacheSet(w.cache, cacheKey(w.req.videoId), buffer, now),
            !.req.wroteAt = now]

\* the handler once extractAudio has returned `buffer`
HandlerSuccess(w, buffer) ==
  IF server = "index" /\ buffer.len < MIN_LENGTH
  THEN ExtractionFailed([w EXCEPT !.req.buf = buffer], TOO_SMALL)
  ELSE Respond(CachePut([w EXCEPT !.req.buf = buffer], buffer), 200, buffer)

\* a mutant of AllFailed: the failure is cached as an empty payload
AllFailedCaching(w) ==
  Respond(CachePut([w EXCEPT !.req.allFailed = TRUE], [by |-> w.req.n, k |-> 0, len |-> 0]),
          500, Absent)

\* throw new Error('All extraction strategies failed...') and the handler's catch
AllFailed(w) ==
  ExtractionFailed([w EXCEPT !.req.allFailed = TRUE, !.req.thrown = ALL_FAILED], ALL_FAILED)

\* a mutant of NextStrategy: a strategy is skipped
NextStrategySkip(k) == k + 2

\* the strategies follow one another in the order of the source text
NextStrategy(k) == k + 1

\* the synchronous start of strategy k, up to its first await
StartStrategy(w, k) ==
  LET manual == (k = NumStrategies)
      w1 == [w EXCEPT !.req.k = k, !.req.tried = Append(w.req.tried, k),
                      !.req.pc = IF manual THEN "url" ELSE "exec"]
  IN IF manual /\ server = "start"
     THEN [w1 EXCEPT !.dir[tempScriptPath(w.req.videoId)] = [by |-> w.req.n, k |-> k, len |-> 0]]
     ELSE w1

\* a mutant of StrategyFailed: a failed strategy ends the chain
StrategyFailedAbort(w) ==
  AllFailed([w EXCEPT !.req.failed = w.req.failed \cup {w.req.k}])

\* catch (err) { console.warn(...) } or the else branch "Output file not found"
StrategyFailed(w) ==
  LET k == w.req.k
      w1 == [w EXCEPT !.req.failed = w.req.failed \cup {k}]
  IN IF k < NumStrategies THEN StartStrategy(w1, NextStrategy(k)) ELSE AllFailed(w1)

\* catch (err) of a strategy: err.message is logged and the chain goes on
Caught(w, message) == StrategyFailed([w EXCEPT !.req.lastErr = message])

\* return buffer, after fs.unlinkSync(outputPath)
ReturnBuffer(w, buffer) ==
  HandlerSuccess([w EXCEPT !.dir[outputPath(w.req.videoId)] = Absent,
                           !.req.okAt = w.req.k], buffer)

\* if (fs.existsSync(outputPath)) { read; unlink; return buffer } else { warn }
StrategyOutput(w) ==
  LET out == outputPath(w.req.videoId) IN
  IF Exists(w.dir[out])
  THEN IF server = "start" THEN [w EXCEPT !.req.pc = "read"]
       ELSE ReturnBuffer(w, w.dir[out])
  ELSE StrategyFailed(w)

Commit(r, w) ==
  /\ reqs' = [reqs EXCEPT ![r] = w.req]
  /\ audioCache' = w.cache
  /\ tmpDir' = w.dir

\* a mutant of RemoveOutput: an output file that exists is left alone
RemoveOutputKeep(w) == w

\* extractAudio on entry: if (fs.existsSync(outputPath)) fs.unlinkSync(outputPath)
RemoveOutput(w) == [w EXCEPT !.dir[outputPath(w.req.videoId)] = Absent]

\* the requests whose extractAudio call is suspended at an await
InFlight == {"exec", "url", "curl", "wget", "ffmpeg", "read", "readc"}

\* a mutant of AudioRequest: a miss while an extraction of the same identifier
\* is in flight starts no second extraction and is answered 503
AudioRequestSingleFlight(r, id) ==
  /\ server \in {"index", "start"}
  /\ r = nreq + 1 /\ r \in Reqs
  /\ nreq' = r
  /\ LET got == CacheGet(audioCache, cacheKey(id), now)
         w0 == [req |-> [NoReq EXCEPT !.n = r, !.videoId = id], cache |-> got.cache,
                dir |-> tmpDir]
     IN IF Exists(got.value)
        THEN Commit(r, Respond([w0 EXCEPT !.req.hit = TRUE, !.req.buf = got.value],
                               200, got.value))
        ELSE IF \E q \in Reqs : reqs[q].videoId = id /\ reqs[q].pc \in InFlight
        THEN Commit(r, Respond(w0, 503, Absent))
        ELSE Commit(r, StartStrategy(RemoveOutput(w0), 1))
  /\ UNCHANGED <<server, ids, now, ticks, writes, CACHE_DIR, nextSweep, cleared, res, apiLimiter, home, player, voice>>

\* app.get('/audio/:videoId') of the NodeCache servers, up to the first await
AudioRequest(r, id) ==
  /\ server \in {"index", "start"}
  /\ r = nreq + 1 /\ r \in Reqs
  /\ nreq' = r
  /\ LET got == CacheGet(audioCache, cacheKey(id), now)
         writers == {q \in Reqs : reqs[q].videoId = id /\ reqs[q].wroteAt >= 0}
         rq == [NoReq EXCEPT !.n = r, !.videoId = id,
                  !.fresh = \E q \in writers : now <= reqs[q].wroteAt + stdTTL * 1000,
                  !.stale = writers # {} /\
                            \A q \in writers : now > reqs[q].wroteAt + stdTTL * 1000]
         w0 == [req |-> rq, cache |-> got.cache, dir |-> tmpDir]
     IN IF Exists(got.value)
        THEN Commit(r, Respond([w0 EXCEPT !.req.hit = TRUE, !.req.buf = got.value],
                               200, got.value))
        ELSE Commit(r, StartStrategy(RemoveOutput(w0), 1))
  /\ UNCHANGED <<server, ids, now, ticks, writes, CACHE_DIR, nextSweep, cleared, res, apiLimiter, home, player, voice>>

\* the path the tool that request r awaits was told to write
ToolTarget(rq) ==
  IF rq.pc \in {"curl", "wget"} THEN tempFile(rq.videoId) ELSE outputPath(rq.videoId)

\* the running external tool writes (or overwrites) its output
ToolWriteUpTo(r, len, limit) ==
  /\ server \in {"index", "start"}
  /\ reqs[r].pc \in {"exec", "curl", "wget", "ffmpeg"}
  /\ writes < limit
  /\ writes' = writes + 1
  /\ tmpDir' = [tmpDir EXCEPT ![ToolTarget(reqs[r])] = [by |-> r, k |-> reqs[r].k, len |-> len]]
  /\ UNCHANGED <<server, ids, now, ticks, nreq, reqs, audioCache, CACHE_DIR, nextSweep, cleared, res, apiLimiter, home, player, voice>>

ToolWrite(r, len) == ToolWriteUpTo(r, len, MaxWrites)

\* the awaited tool ends: execPromise resolves (ok) or rejects
ToolExit(r, ok) ==
  /\ server \in {"index", "start"}
  /\ reqs[r].pc \in {"exec", "url", "curl", "wget", "ffmpeg"}
  /\ ~reqs[r].hung
  /\ LET w == World(r)
         pc == reqs[r].pc
         tmp == tempFile(reqs[r].videoId)
         err == CommandFailed(reqs[r])
     IN Commit(r,
          CASE pc = "exec" -> IF ok THEN StrategyOutput(w) ELSE Caught(w, err)
            [] pc = "url" -> IF ok THEN [w EXCEPT !.req.pc = "curl"] ELSE Caught(w, err)
            [] pc = "curl" -> IF ok THEN [w EXCEPT !.req.pc = "ffmpeg"]
                              ELSE IF server = "index" THEN [w EXCEPT !.req.pc = "wget"]
                              ELSE Caught(w, err)
            [] pc = "wget" -> IF ok THEN [w EXCEPT !.req.pc = "ffmpeg"] ELSE Caught(w, err)
            [] pc = "ffmpeg" -> IF ok THEN StrategyOutput([w EXCEPT !.dir[tmp] = Absent])
                                ELSE Caught(w, err))
  /\ UNCHANGED <<server, ids, now, ticks, nreq, writes, CACHE_DIR, nextSweep, cleared, res, apiLimiter, home, player, voice>>

\* the awaited tool stalls (a connection that never answers) and will not
\* exit; exec is called without a timeout and nothing kills the process
ToolHangs(r) ==
  /\ server \in {"index", "start"}
  /\ reqs[r].pc \in {"exec", "url", "curl", "wget", "ffmpeg"}
  /\ ~reqs[r].hung
  /\ reqs' = [reqs EXCEPT ![r].hung = TRUE]
  /\ UNCHANGED <<server, ids, now, ticks, nreq, writes, audioCache, tmpDir, CACHE_DIR, nextSweep,
                 cleared, res, apiLimiter, home, player, voice>>

\* start.sh: fs.promises.readFile(outputPath) has read the file, or failed
ReadData(r) ==
  /\ server = "start"
  /\ reqs[r].pc = "read"
  /\ LET w == World(r)
         f == tmpDir[outputPath(reqs[r].videoId)]
     IN Commit(r, IF Exists(f) THEN [w EXCEPT !.req.pc = "readc", !.req.buf = f]
                  ELSE Caught(w, NoSuchFile(reqs[r])))
  /\ UNCHANGED <<server, ids, now, ticks, nreq, writes, CACHE_DIR, nextSweep, cleared, res, apiLimiter, home, player, voice>>

\* start.sh: the code after `await readFile`: fs.unlinkSync(outputPath) throws
\* when the file is gone, and the catch takes the strategy as failed
ReadResolve(r) ==
  /\ server = "start"
  /\ reqs[r].pc = "readc"
  /\ LET w == World(r)
         f == tmpDir[outputPath(reqs[r].videoId)]
     IN Commit(r, IF Exists(f) THEN ReturnBuffer(w, reqs[r].buf)
                  ELSE Caught([w EXCEPT !.req.buf = Absent], NoSuchFile(reqs[r])))
  /\ UNCHANGED <<server, ids, now, ticks, nreq, writes, CACHE_DIR, nextSweep, cleared, res, apiLimiter, home, player, voice>>

\* NodeCache's periodic check deletes the entries whose expiry time has passed
CheckData ==
  /\ server \in {"index", "start"}
  /\ \E key \in CacheKeys : audioCache[key] # NoEntry /\ audioCache[key].t < now
  /\ audioCache' = [key \in CacheKeys |->
                      IF audioCache[key] # NoEntry /\ audioCache[key].t < now
                      THEN NoEntry ELSE audioCache[key]]
  /\ UNCHANGED <<server, ids, now, ticks, nreq, writes, reqs, tmpDir, CACHE_DIR, nextSweep, cleared, res, apiLimiter, home, player, voice>>

\* time passes
TickSteps == {stdTTL * 1000, stdTTL * 1000 + 1}

Tick(d) ==
  /\ server \in {"index", "start"}
  /\ ticks < MaxTicks
  /\ ticks' = ticks + 1
  /\ now' = now + d
  /\ UNCHANGED <<server, ids, nreq, writes, reqs, audioCache, tmpDir, CACHE_DIR, nextSweep, cleared, res, apiLimiter, home, player, voice>>

\* ------------------------------------------------------------ disk server
HOUR == 60 * 60 * 1000
DiskAbsent == [by |-> 0, k |-> 0, len |-> -1, mtime |-> -1]
cacheFilePath(id) == <<"mp3", id>>           \* path.join(CACHE_DIR, `${videoId}.mp3`)
diskTempFile(id) == <<"mp3.temp", id>>       \* `${cacheFilePath}.temp`
actualTempFile(id) == <<"mp3.temp.mp3", id>> \* `${tempFile}.mp3`
DiskPaths == {"mp3", "mp3.temp", "mp3.temp.mp3"} \X AllIds

\* fs.renameSync(from, to): the file keeps its modification time
Rename(dir, from, to) == [dir EXCEPT ![to] = dir[from], ![from] = DiskAbsent]

\* the head of the response goes out; a head sent twice is an error of the
\* http module (ERR_HTTP_HEADERS_SENT)
SendHead(rq, status) ==
  IF rq.headersSent THEN [rq EXCEPT !.lateError = TRUE]
  ELSE [rq EXCEPT !.status = status, !.headersSent = TRUE, !.heads = rq.heads + 1]

\* res.status(status).send(...)
DiskDone(rq, status) ==
  [SendHead(rq, status) EXCEPT !.pc = "done", !.ended = (~rq.headersSent \/ rq.ended)]

\* a stream piped into res: the first chunk, or the end, sends the head
PipeData(rq) == IF rq.headersSent THEN rq ELSE SendHead(rq, 200)
PipeEnd(rq) == [PipeData(rq) EXCEPT !.pc = "done", !.ended = TRUE]

\* stream.pipe(res): from here on the stream feeds the response, and only the
\* stream ending ends the response
Piped(rq) == [rq EXCEPT !.pc = "pipe"]

\* the process has exited on an uncaught exception
Crashed == \E r \in Reqs : reqs[r].pc = "crashed"

\* history: a conversion has put the cache file of `id` in place
Published(id) ==
  IF cleared.n > 0 THEN [cleared EXCEPT !.republished = @ \cup {id}] ELSE cleared

\* app.get('/audio/:videoId') of the disk server, up to the first await
DiskRequest(r, id) ==
  /\ server = "disk" /\ ~Crashed
  /\ r = nreq + 1 /\ r \in Reqs
  /\ nreq' = r
  /\ LET first == cleared.n > 0 /\ id \in cleared.had /\ id \notin cleared.fetched
         rq == [NoReq EXCEPT !.n = r, !.videoId = id, !.postClear = first,
                             !.republished = first /\ id \in cleared.republished]
         f == CACHE_DIR[cacheFilePath(id)]
     IN reqs' = [reqs EXCEPT ![r] =
          IF ~IsValidId(id) THEN DiskDone(rq, 400)
          ELSE IF Exists(f)
          THEN Piped([rq EXCEPT !.hit = TRUE, !.age = now - f.mtime,
                                !.body = [by |-> f.by, k |-> f.k, len |-> f.len]])
          ELSE [rq EXCEPT !.pc = "getInfo"]]
  /\ cleared' = IF cleared.n > 0 THEN [cleared EXCEPT !.fetched = @ \cup {id}] ELSE cleared
  /\ UNCHANGED <<server, ids, now, ticks, writes, audioCache, tmpDir, CACHE_DIR, nextSweep, res, apiLimiter, home, player, voice>>

\* await ytdl.getInfo(videoId) ends; on failure isYoutubeDlInstalled() decides
GetInfoDone(r, ok, installed) ==
  /\ server = "disk"
  /\ reqs[r].pc = "getInfo"
  /\ ok => installed
  /\ LET id == reqs[r].videoId IN
     IF ok
     THEN /\ reqs' = [reqs EXCEPT ![r].pc = "ffmpeg", ![r].k = 1, ![r].tried = <<1>>]
          /\ CACHE_DIR' = [CACHE_DIR EXCEPT ![diskTempFile(id)] =
                             [by |-> r, k |-> 1, len |-> 0, mtime |-> now]]
     ELSE /\ reqs' = [reqs EXCEPT ![r] =
                 IF installed
                 THEN [@ EXCEPT !.pc = "cli", !.k = 2, !.tried = <<1, 2>>, !.failed = {1}]
                 ELSE DiskDone([@ EXCEPT !.tried = <<1>>, !.failed = {1}, !.noCli = TRUE], 500)]
          /\ UNCHANGED CACHE_DIR
  /\ UNCHANGED <<server, ids, now, ticks, nreq, writes, audioCache, tmpDir, nextSweep, cleared, res, apiLimiter, home, player, voice>>

\* ffmpeg emits converted audio: it goes to the response and to the temp file
FfmpegData(r, len) ==
  /\ server = "disk"
  /\ reqs[r].pc = "ffmpeg"
  /\ writes < MaxWrites
  /\ writes' = writes + 1
  /\ reqs' = [reqs EXCEPT ![r] = PipeData(@)]
  /\ LET tmp == diskTempFile(reqs[r].videoId) IN
     CACHE_DIR' = IF Exists(CACHE_DIR[tmp])
                  THEN [CACHE_DIR EXCEPT ![tmp] = [by |-> r, k |-> 1, len |-> len, mtime |-> now]]
                  ELSE CACHE_DIR
  /\ UNCHANGED <<server, ids, now, ticks, nreq, audioCache, tmpDir, nextSweep, cleared, res, apiLimiter, home, player, voice>>

\* ffmpeg's 'end': the temp file becomes the cache file, the response ends
FfmpegEnd(r) ==
  /\ server = "disk"
  /\ reqs[r].pc = "ffmpeg"
  /\ reqs' = [reqs EXCEPT ![r] = Piped([@ EXCEPT !.okAt = 1])]
  /\ LET id == reqs[r].videoId IN
     IF Exists(CACHE_DIR[diskTempFile(id)])
     THEN /\ CACHE_DIR' = Rename(CACHE_DIR, diskTempFile(id), cacheFilePath(id))
          /\ cleared' = Published(id)
     ELSE UNCHANGED <<CACHE_DIR, cleared>>
  /\ UNCHANGED <<server, ids, now, ticks, nreq, writes, audioCache, tmpDir, nextSweep, res, apiLimiter, home, player, voice>>

\* a mutant of FfmpegError: the 500 is sent without looking at headersSent
FfmpegErrorUnchecked(r) ==
  /\ server = "disk"
  /\ reqs[r].pc = "ffmpeg"
  /\ reqs' = [reqs EXCEPT ![r] = DiskDone([@ EXCEPT !.failed = {1}], 500)]
  /\ CACHE_DIR' = [CACHE_DIR EXCEPT ![diskTempFile(reqs[r].videoId)] = DiskAbsent]
  /\ UNCHANGED <<server, ids, now, ticks, nreq, writes, audioCache, tmpDir, nextSweep, cleared, res, apiLimiter, home, player, voice>>

\* ffmpeg's 'error': 500 unless the head is out; the temp file is removed
FfmpegError(r) ==
  /\ server = "disk"
  /\ reqs[r].pc = "ffmpeg"
  /\ reqs' = [reqs EXCEPT ![r] =
        IF reqs[r].headersSent THEN Piped([@ EXCEPT !.failed = {1}])
        ELSE DiskDone([@ EXCEPT !.failed = {1}], 500)]
  /\ CACHE_DIR' = [CACHE_DIR EXCEPT ![diskTempFile(reqs[r].videoId)] = DiskAbsent]
  /\ UNCHANGED <<server, ids, now, ticks, nreq, writes, audioCache, tmpDir, nextSweep, cleared, res, apiLimiter, home, player, voice>>

\* the spawned yt-dlp / youtube-dl writes its output file
CliWrite(r, len) ==
  /\ server = "disk"
  /\ reqs[r].pc = "cli"
  /\ writes < MaxWrites
  /\ writes' = writes + 1
  /\ CACHE_DIR' = [CACHE_DIR EXCEPT ![actualTempFile(reqs[r].videoId)] =
                     [by |-> r, k |-> 2, len |-> len, mtime |-> now]]
  /\ UNCHANGED <<server, ids, now, ticks, nreq, reqs, audioCache, tmpDir, nextSweep, cleared, res, apiLimiter, home, player, voice>>

\* process.on('close', code)
CliClose(r, code) ==
  /\ server = "disk"
  /\ reqs[r].pc = "cli"
  /\ LET id == reqs[r].videoId
         found == code = 0 /\ Exists(CACHE_DIR[actualTempFile(id)])
     IN /\ reqs' = [reqs EXCEPT ![r] =
              IF found THEN Piped([@ EXCEPT !.okAt = 2])
              ELSE IF reqs[r].headersSent
              THEN [@ EXCEPT !.pc = "done", !.failed = {1, 2}, !.allFailed = TRUE]
              ELSE DiskDone([@ EXCEPT !.failed = {1, 2}, !.allFailed = TRUE], 500)]
        /\ CACHE_DIR' = IF found THEN Rename(CACHE_DIR, actualTempFile(id), cacheFilePath(id))
                        ELSE CACHE_DIR
        /\ cleared' = IF found THEN Published(id) ELSE cleared
  /\ UNCHANGED <<server, ids, now, ticks, nreq, writes, audioCache, tmpDir, nextSweep, res, apiLimiter, home, player, voice>>

\* the stream piped into the response ends: the pipe ends the response
StreamFinish(r) ==
  /\ server = "disk"
  /\ reqs[r].pc = "pipe"
  /\ reqs' = [reqs EXCEPT ![r] = PipeEnd(@)]
  /\ UNCHANGED <<server, ids, now, ticks, nreq, writes, audioCache, tmpDir, CACHE_DIR, nextSweep,
                 cleared, res, apiLimiter, home, player, voice>>

\* the stream piped into the response emits 'error': no stream has an
\* 'error' listener, the error is thrown and the process exits; every
\* response that was not ended stays so
StreamError(r) ==
  /\ server = "disk"
  /\ reqs[r].pc = "pipe"
  /\ reqs' = [q \in Reqs |->
                IF reqs[q].pc \in {"idle", "done"} THEN reqs[q]
                ELSE [reqs[q] EXCEPT !.pc = "crashed"]]
  /\ UNCHANGED <<server, ids, now, ticks, nreq, writes, audioCache, tmpDir, CACHE_DIR, nextSweep,
                 cleared, res, apiLimiter, home, player, voice>>

\* files.forEach(file => { fs.unlinkSync(filePath); deleted++ })
RECURSIVE UnlinkAll(_, _, _)
\* a mutant of UnlinkAll: only the files named <id>.mp3 are removed and counted
UnlinkAllMp3(dir, files, deleted) ==
  LET mp3 == {p \in files : p[1] = "mp3"} IN
  [dir |-> [p \in DOMAIN dir |-> IF p \in mp3 THEN DiskAbsent ELSE dir[p]],
   deleted |-> deleted + Cardinality(mp3)]

UnlinkAll(dir, files, deleted) ==
  IF files = {} THEN [dir |-> dir, deleted |-> deleted]
  ELSE LET file == CHOOSE p \in files : TRUE
       IN UnlinkAll([dir EXCEPT ![file] = DiskAbsent], files \ {file}, deleted + 1)

\* the answer of POST /clear-cache, and what has happened since:
\*   had          the identifiers whose cache file existed when it ran
\*   fetched      the identifiers asked for since
\*   republished  the identifiers whose cache file a conversion has put back since
NotCleared ==
  [n |-> 0, status |-> 0, deletedFiles |-> 0, had |-> {}, fetched |-> {}, republished |-> {}]

\* a mutant of ClearCache: only the files cleanCache would remove are removed
ClearCacheExpired ==
  /\ server = "disk" /\ ~Crashed
  /\ cleared.n < MaxClears
  /\ LET files == {p \in DiskPaths : Exists(CACHE_DIR[p]) /\ now - CACHE_DIR[p].mtime > ONE_DAY}
         done == UnlinkAll(CACHE_DIR, files, 0)
     IN /\ CACHE_DIR' = done.dir
        /\ cleared' = [n |-> cleared.n + 1, status |-> 200, deletedFiles |-> done.deleted,
                       had |-> {id \in AllIds : Exists(CACHE_DIR[cacheFilePath(id)])},
                       fetched |-> {}, republished |-> {}]
  /\ UNCHANGED <<server, ids, now, ticks, nreq, writes, reqs, audioCache, tmpDir, nextSweep, res, apiLimiter, home, player, voice>>

\* app.post('/clear-cache')
ClearCache ==
  /\ server = "disk" /\ ~Crashed
  /\ cleared.n < MaxClears
  /\ LET files == {p \in DiskPaths : Exists(CACHE_DIR[p])}   \* fs.readdirSync(CACHE_DIR)
         done == UnlinkAll(CACHE_DIR, files, 0)
     IN /\ CACHE_DIR' = done.dir
        /\ cleared' = [n |-> cleared.n + 1, status |-> 200, deletedFiles |-> done.deleted,
                       had |-> {id \in AllIds : Exists(CACHE_DIR[cacheFilePath(id)])},
                       fetched |-> {}, republished |-> {}]
  /\ UNCHANGED <<server, ids, now, ticks, nreq, writes, reqs, audioCache, tmpDir, nextSweep, res, apiLimiter, home, player, voice>>

\* cleanCache, run by setInterval every hour
cleanCache ==
  /\ server = "disk" /\ ~Crashed
  /\ now = nextSweep
  /\ nextSweep' = nextSweep + SWEEP_INTERVAL
  /\ CACHE_DIR' = [p \in DiskPaths |->
        IF Exists(CACHE_DIR[p]) /\ now - CACHE_DIR[p].mtime > ONE_DAY
        THEN DiskAbsent ELSE CACHE_DIR[p]]
  /\ UNCHANGED <<server, ids, now, ticks, nreq, writes, reqs, audioCache, tmpDir, cleared, res, apiLimiter, home, player, voice>>

\* time passes on the disk server, at most until cleanCache is due.  A clock
\* step is far longer than a conversion: no request is in flight across it.
DiskTickSteps == {SWEEP_INTERVAL \div 3, SWEEP_INTERVAL}

DiskTick(d) ==
  /\ server = "disk"
  /\ \A r \in Reqs : reqs[r].pc \in {"idle", "done"}
  /\ now + d <= nextSweep
  /\ now + d <= MaxHours * HOUR
  /\ now' = now + d
  /\ UNCHANGED <<server, ids, ticks, nreq, writes, reqs, audioCache, tmpDir, CACHE_DIR, nextSweep, cleared, res, apiLimiter, home, player, voice>>

\* ---------------------------------------------------- the range responder
\* Strings are sequences of characters.  A number is [nan, v]: parseInt gives
\* NaN where no digit is found, and arithmetic on NaN gives NaN.
NaN == [nan |-> TRUE, v |-> 0]
Num(n) == [nan |-> FALSE, v |-> n]
Plus(a, b) == IF a.nan \/ b.nan THEN NaN ELSE Num(a.v + b.v)
Minus(a, b) == IF a.nan \/ b.nan THEN NaN ELSE Num(a.v - b.v)

Digit == {"0", "1", "2", "3", "4", "5", "6", "7", "8", "9"}
DigitValue(c) ==
  CASE c = "0" -> 0 [] c = "1" -> 1 [] c = "2" -> 2 [] c = "3" -> 3 [] c = "4" -> 4
    [] c = "5" -> 5 [] c = "6" -> 6 [] c = "7" -> 7 [] c = "8" -> 8 [] c = "9" -> 9
DigitChar(d) == <<"0", "1", "2", "3", "4", "5", "6", "7", "8", "9">>[d + 1]

\* String(n) for n >= 0
RECURSIVE ToStr(_)
ToStr(n) == IF n < 10 THEN <<DigitChar(n)>> ELSE Append(ToStr(n \div 10), DigitChar(n % 10))

\* `${x}` of a number
NumStr(x) ==
  IF x.nan THEN <<"N", "a", "N">>
  ELSE IF x.v < 0 THEN <<"-">> \o ToStr(0 - x.v) ELSE ToStr(x.v)

\* parseInt(s, 10): leading blanks, a sign, then the longest run of digits
RECURSIVE Digits(_, _, _)
Digits(s, i, acc) ==
  IF i <= Len(s) /\ s[i] \in Digit THEN Digits(s, i + 1, acc * 10 + DigitValue(s[i])) ELSE acc

RECURSIVE SkipBlanks(_, _)
SkipBlanks(s, i) == IF i <= Len(s) /\ s[i] = " " THEN SkipBlanks(s, i + 1) ELSE i

parseInt(s) ==
  LET i == SkipBlanks(s, 1)
      signed == i <= Len(s) /\ s[i] \in {"+", "-"}
      j == IF signed THEN i + 1 ELSE i
  IN IF j <= Len(s) /\ s[j] \in Digit
     THEN Num(IF signed /\ s[i] = "-" THEN 0 - Digits(s, j, 0) ELSE Digits(s, j, 0))
     ELSE NaN

\* the first position at which pat occurs in s (0: nowhere)
IndexOf(s, pat) ==
  LET hits == {i \in 1..(Len(s) - Len(pat) + 1) : SubSeq(s, i, i + Len(pat) - 1) = pat}
  IN IF hits = {} THEN 0 ELSE CHOOSE i \in hits : \A j \in hits : i <= j

\* s.replace(/bytes=/, '')
BYTES_EQ == <<"b", "y", "t", "e", "s", "=">>
Replace(s) ==
  LET i == IndexOf(s, BYTES_EQ)
  IN IF i = 0 THEN s ELSE SubSeq(s, 1, i - 1) \o SubSeq(s, i + Len(BYTES_EQ), Len(s))

\* s.split('-')
RECURSIVE Split(_)
Split(s) ==
  LET i == IndexOf(s, <<"-">>)
  IN IF i = 0 THEN <<s>> ELSE <<SubSeq(s, 1, i - 1)>> \o Split(SubSeq(s, i + 1, Len(s)))

\* buffer.slice(from, to): NaN counts as 0, a negative index counts from the
\* end, both are clamped to the buffer
Clamp(x, len) ==
  IF x.nan THEN 0
  ELSE IF x.v < 0 THEN (IF len + x.v < 0 THEN 0 ELSE len + x.v)
  ELSE IF x.v > len THEN len ELSE x.v
Slice(buffer, from, to) == SubSeq(buffer, Clamp(from, Len(buffer)) + 1, Clamp(to, Len(buffer)))

\* a mutant of Chunk: the end taken as exclusive
ChunkExclusive(buffer, start, end) == Slice(buffer, start, end)

\* buffer.slice(start, end + 1)
Chunk(buffer, start, end) == Slice(buffer, start, Plus(end, Num(1)))

\* a mutant of EndOf: an open range ends at total
EndOfTotal(parts, total) ==
  IF Len(parts) >= 2 /\ parts[2] # <<>> THEN parseInt(parts[2]) ELSE Num(total)

\* endStr ? parseInt(endStr, 10) : total - 1
EndOf(parts, total) ==
  IF Len(parts) >= 2 /\ parts[2] # <<>> THEN parseInt(parts[2]) ELSE Num(total - 1)

\* `bytes ${start}-${end}/${total}`
ContentRange(start, end, total) ==
  <<"b", "y", "t", "e", "s", " ">> \o NumStr(start) \o <<"-">> \o NumStr(end)
     \o <<"/">> \o ToStr(total)

NoHeader == <<"undefined">>      \* req.headers.range of a request without the header
NotSet == <<>>                   \* a response header that was not set
Payload(total) == [i \in 1..total |-> (i * 7) % 256]

\* a mutant of FullResponse: the whole payload sent as a partial response
FullResponseAsPartial(buffer) ==
  [status |-> 206, ContentRange |-> ContentRange(Num(0), Num(Len(buffer) - 1), Len(buffer)),
   AcceptRanges |-> "bytes", ContentLength |-> Num(Len(buffer)),
   ContentType |-> "audio/mpeg", body |-> buffer]

\* res.writeHead(200, {...}); res.end(buffer)
FullResponse(buffer) ==
  [status |-> 200, ContentRange |-> NotSet, AcceptRanges |-> "",
   ContentLength |-> Num(Len(buffer)), ContentType |-> "audio/mpeg", body |-> buffer]

\* the responder of the NodeCache servers
RangeResponse(buffer, range) ==
  IF range = NoHeader \/ range = <<>> THEN FullResponse(buffer)
  ELSE LET parts == Split(Replace(range))
           total == Len(buffer)
           start == parseInt(parts[1])
           end == EndOf(parts, total)
           chunkSize == Plus(Minus(end, start), Num(1))
       IN [status |-> 206, ContentRange |-> ContentRange(start, end, total),
           AcceptRanges |-> "bytes", ContentLength |-> chunkSize,
           ContentType |-> "audio/mpeg", body |-> Chunk(buffer, start, end)]

\* fs.createReadStream(path, { start, end }): both must be integers >= 0 with
\* start <= end, or the call throws; the stream stops at the end of the file
ReadStreamThrows(start, end) ==
  start.nan \/ end.nan \/ start.v < 0 \/ end.v < 0 \/ start.v > end.v
ReadStream(buffer, start, end) ==
  SubSeq(buffer, start.v + 1, IF end.v + 1 > Len(buffer) THEN Len(buffer) ELSE end.v + 1)

\* 'Error processing your request', the text of the disk server's outer catch
ERROR_PROCESSING ==
  <<"E", "r", "r", "o", "r", " ", "p", "r", "o", "c", "e", "s", "s", "i", "n", "g", " ",
    "y", "o", "u", "r", " ", "r", "e", "q", "u", "e", "s", "t">>

\* the cache-hit branch of the disk server
CachedResponse(buffer, range) ==
  LET size == Len(buffer) IN
  IF range = NoHeader \/ range = <<>>
  THEN [status |-> 200, ContentRange |-> NotSet, AcceptRanges |-> "bytes",
        ContentLength |-> Num(size), ContentType |-> "audio/mpeg", body |-> buffer]
  ELSE LET parts == Split(Replace(range))
           start == parseInt(parts[1])
           end == EndOf(parts, size)
           chunksize == Plus(Minus(end, start), Num(1))
       IN IF ReadStreamThrows(start, end)
          THEN [status |-> 500, ContentRange |-> ContentRange(start, end, size),
                AcceptRanges |-> "bytes", ContentLength |-> Num(Len(ERROR_PROCESSING)),
                ContentType |-> "text/html", body |-> ERROR_PROCESSING]
          ELSE [status |-> 206, ContentRange |-> ContentRange(start, end, size),
                AcceptRanges |-> "bytes", ContentLength |-> chunksize,
                ContentType |-> "audio/mpeg", body |-> ReadStream(buffer, start, end)]

\* the responder on its own: res holds a payload size, a Range header and,
\* once sent, the response
EmptyOut ==
  [status |-> 0, ContentRange |-> NotSet, AcceptRanges |-> "", ContentLength |-> NaN,
   ContentType |-> "", body |-> <<>>]
TokenNumbers == 0..MaxTotal \cup {99, MIN_LENGTH - 1}
Tokens == {<<>>, <<"x">>} \cup {ToStr(n) : n \in TokenNumbers}
Headers ==
  {NoHeader} \cup {BYTES_EQ \o a : a \in Tokens}
             \cup {BYTES_EQ \o a \o <<"-">> \o b : a \in Tokens, b \in Tokens}
Totals == 1..MaxTotal \cup {MIN_LENGTH}

\* res.writeHead / res.end of the NodeCache servers
SendAudio ==
  /\ res.variant = "index" /\ ~res.sent
  /\ res' = [res EXCEPT !.sent = TRUE, !.out = RangeResponse(Payload(res.total), res.range)]
  /\ UNCHANGED <<server, ids, now, ticks, nreq, writes, reqs, audioCache, tmpDir, CACHE_DIR,
                 nextSweep, cleared, apiLimiter, home, player, voice>>

\* the disk server serving a cached file
ServeCached ==
  /\ res.variant = "disk" /\ ~res.sent
  /\ res' = [res EXCEPT !.sent = TRUE, !.out = CachedResponse(Payload(res.total), res.range)]
  /\ UNCHANGED <<server, ids, now, ticks, nreq, writes, reqs, audioCache, tmpDir, CACHE_DIR,
                 nextSweep, cleared, apiLimiter, home, player, voice>>

\* ------------------------------------------------------- the rate limiter
\* express-rate-limit with its memory store: per client address a hit count
\* and the time at which the client's window ends.  History, per client and
\* for the client's current window: reached (requests passed on to the /audio
\* handler); over all time: last (the last request and what became of it) and
\* health (requests to /health that were refused or counted).
Clients == {"10.0.0.1", "10.0.0.2"}
AudioPath == <<"audio", IdA>>
HealthPath == <<"health">>

\* a mutant of Mounted: app.use(apiLimiter), on every path
MountedEverywhere(path) == TRUE

\* app.use('/audio', apiLimiter)
Mounted(path) == path[1] = "audio"

\* a mutant of OverLimit: the request that reaches max is refused
OverLimitAtMax(totalHits) == totalHits >= max

\* totalHits > max: the request is refused with 429
OverLimit(totalHits) == totalHits > max

NoCall == [client |-> "", path |-> <<>>, status |-> 0, handled |-> FALSE]

\* a request from client c; the limiter counts it and lets it through or not
LimitedRequest(c, path) ==
  /\ apiLimiter.on
  /\ LET open == apiLimiter.hits[c] > 0 /\ now < apiLimiter.resetTime[c]
         totalHits == IF open THEN apiLimiter.hits[c] + 1 ELSE 1
         resetTime == IF open THEN apiLimiter.resetTime[c] ELSE now + windowMs
         before == IF open THEN apiLimiter.reached[c] ELSE 0
     IN IF Mounted(path)
        THEN /\ totalHits <= max + MaxOver
             /\ apiLimiter' =
                  [apiLimiter EXCEPT
                     !.hits[c] = totalHits, !.resetTime[c] = resetTime,
                     !.reached[c] = IF OverLimit(totalHits) THEN before ELSE before + 1,
                     !.health = @ \/ path = HealthPath,
                     !.last = [client |-> c, path |-> path,
                               status |-> IF OverLimit(totalHits) THEN 429 ELSE 200,
                               handled |-> ~OverLimit(totalHits)]]
        ELSE apiLimiter' = [apiLimiter EXCEPT
                              !.last = [client |-> c, path |-> path, status |-> 200,
                                        handled |-> TRUE]]
  /\ UNCHANGED <<server, ids, now, ticks, nreq, writes, reqs, audioCache, tmpDir, CACHE_DIR,
                 nextSweep, cleared, res, home, player, voice>>

\* time passes for the limiter
LimiterTick ==
  /\ apiLimiter.on
  /\ now + windowMs \div 2 <= MaxWindows * windowMs
  /\ now' = now + windowMs \div 2
  /\ UNCHANGED <<server, ids, ticks, nreq, writes, reqs, audioCache, tmpDir, CACHE_DIR,
                 nextSweep, cleared, res, apiLimiter, home, player, voice>>


\* ================================================================ frontend
\* src/frontend/src/app/page.jsx: the Home component and CustomAudioPlayer.
\* A video is known by its id.videoId; a playlist is the list of its videos.
Null == "null"
MaxSongs == 2       \* a playlist is extended while it holds fewer than MaxSongs videos
Videos == {"v1", "v2", "v3"}
PlaylistNames == {"p", "q"}
\* res.data.items of the searches made in one behaviour
Items == {<<"v1", "v2">>, <<"v3", "v1">>}

Range(s) == {s[i] : i \in DOMAIN s}

\* arr.filter((v) => v !== x)
RECURSIVE Filter(_, _)
Filter(s, x) ==
  IF s = <<>> THEN <<>>
  ELSE IF Head(s) = x THEN Filter(Tail(s), x) ELSE <<Head(s)>> \o Filter(Tail(s), x)

\* arr.findIndex((v) => v.id.videoId === x), counted from 1; 0 where JS gives -1
findIndex(s, x) ==
  IF x \in Range(s) THEN CHOOSE i \in DOMAIN s : s[i] = x /\ \A j \in 1..(i - 1) : s[j] # x
  ELSE 0

\* arr[findIndex + 1] of JS: the element after the first x, arr[0] where x is
\* not in arr, undefined (Null) past the end
After(s, x) == IF findIndex(s, x) + 1 \in DOMAIN s THEN s[findIndex(s, x) + 1] ELSE Null

\* { ...playlists, [name]: list }
Put(playlists, name, list) ==
  [n \in DOMAIN playlists \cup {name} |-> IF n = name THEN list ELSE playlists[n]]

NoHome == [on |-> FALSE]
NoPlayer == [mounted |-> FALSE]
NoVoice == [on |-> FALSE]

\* useState of Home (lines 170-182)
HomeInit ==
  [on |-> TRUE, results |-> <<>>, currentVideo |-> Null, autoplayNext |-> TRUE,
   playlists |-> <<>>, currentPlaylist |-> Null, playingFrom |-> Null]

\* <CustomAudioPlayer src=... autoPlay={true}/> is rendered while currentVideo
\* is set.  Mounting: useState(autoPlay) and an <audio autoPlay>; a later
\* change of src loads the new track and the effect on [src, autoPlay] plays it.
Render(h, pl) ==
  IF h.currentVideo = Null THEN pl
  ELSE IF ~pl.mounted
    THEN [mounted |-> TRUE, playing |-> TRUE, src |-> h.currentVideo, audio |-> "playing"]
  ELSE IF pl.src # h.currentVideo
    THEN [pl EXCEPT !.src = h.currentVideo, !.audio = "playing"]
  ELSE pl

\* a handler of Home has computed the state h
HomeStep(h) ==
  /\ home' = h
  /\ player' = Render(h, player)
  /\ UNCHANGED <<server, ids, now, ticks, nreq, writes, reqs, audioCache, tmpDir, CACHE_DIR,
                 nextSweep, cleared, res, apiLimiter, voice>>

\* searchYouTube: setResults(res.data.items)
searchYouTube(items) ==
  /\ home.on
  /\ HomeStep([home EXCEPT !.results = items])

\* playAudio(video, source = 'search')
playAudioIn(h, video, source) == [h EXCEPT !.currentVideo = video, !.playingFrom = source]

\* the Play button of a search result (line 402) or of a playlist entry (line 506)
playAudio(video) ==
  /\ home.on
  /\ \/ video \in Range(home.results)
     \/ \E n \in DOMAIN home.playlists : video \in Range(home.playlists[n])
  /\ HomeStep(playAudioIn(home, video, "search"))

createPlaylist(playlistName) ==
  /\ home.on
  /\ HomeStep([home EXCEPT !.playlists = Put(home.playlists, playlistName, <<>>)])

deletePlaylist(name) ==
  /\ home.on
  /\ name \in DOMAIN home.playlists
  /\ HomeStep([home EXCEPT
                 !.playlists = [n \in DOMAIN home.playlists \ {name} |-> home.playlists[n]],
                 !.currentPlaylist = IF @ = name THEN Null ELSE @])

\* a mutant of addToPlaylistIn: the video is appended without the test of line 264
addToPlaylistUnchecked(h, playlistName, video) ==
  [h EXCEPT !.playlists = Put(h.playlists, playlistName, Append(h.playlists[playlistName], video))]

addToPlaylistIn(h, playlistName, video) ==
  IF video \in Range(h.playlists[playlistName]) THEN h
  ELSE [h EXCEPT !.playlists =
          Put(h.playlists, playlistName, Append(h.playlists[playlistName], video))]

\* "Add to Playlist" of a search result (line 417) or of the track now playing
\* (line 620, shown while playingFrom === 'search')
addToPlaylist(playlistName, video) ==
  /\ home.on
  /\ playlistName \in DOMAIN home.playlists
  /\ Len(home.playlists[playlistName]) < MaxSongs
  /\ \/ video \in Range(home.results)
     \/ video = home.currentVideo /\ home.playingFrom = "search"
  /\ HomeStep(addToPlaylistIn(home, playlistName, video))

removeFromPlaylist(playlistName, videoId) ==
  /\ home.on
  /\ playlistName \in DOMAIN home.playlists
  /\ videoId \in Range(home.playlists[playlistName])
  /\ HomeStep([home EXCEPT !.playlists =
                 Put(home.playlists, playlistName, Filter(home.playlists[playlistName], videoId))])

\* the Play button of a playlist, disabled while the playlist is empty
playPlaylist(playlistName) ==
  /\ home.on
  /\ playlistName \in DOMAIN home.playlists
  /\ home.playlists[playlistName] # <<>>
  /\ HomeStep(playAudioIn([home EXCEPT !.currentPlaylist = playlistName],
                          home.playlists[playlistName][1], "playlist"))

\* onCheckedChange of the "Autoplay next" checkbox
setAutoplayNext ==
  /\ home.on
  /\ HomeStep([home EXCEPT !.autoplayNext = ~@])

\* playNextInPlaylist: the video it returns (Null for null)
playNextInPlaylist(h) ==
  IF h.currentPlaylist = Null \/ h.currentVideo = Null THEN Null
  ELSE After(h.playlists[h.currentPlaylist], h.currentVideo)

\* the onEnded prop given to CustomAudioPlayer (lines 574-588)
onEnded(h) ==
  IF ~h.autoplayNext THEN h
  ELSE IF h.currentPlaylist # Null
    THEN IF playNextInPlaylist(h) # Null
           THEN [h EXCEPT !.playingFrom = "playlist", !.currentVideo = playNextInPlaylist(h)]
           ELSE h
  ELSE IF After(h.results, h.currentVideo) # Null
    THEN [h EXCEPT !.currentVideo = After(h.results, h.currentVideo)]
  ELSE h

\* the <audio> element fires "ended": handleEnded = setPlaying(false); onEnded()
handleEnded ==
  /\ home.on /\ player.mounted
  /\ player.audio = "playing"
  /\ home' = onEnded(home)
  /\ player' = Render(onEnded(home), [player EXCEPT !.playing = FALSE, !.audio = "ended"])
  /\ UNCHANGED <<server, ids, now, ticks, nreq, writes, reqs, audioCache, tmpDir, CACHE_DIR,
                 nextSweep, cleared, res, apiLimiter, voice>>

\* togglePlay of CustomAudioPlayer (lines 57-64)
togglePlay ==
  /\ home.on /\ player.mounted
  /\ player' = [player EXCEPT !.audio = IF player.playing
                                          THEN (IF @ = "playing" THEN "paused" ELSE @)
                                          ELSE "playing",
                              !.playing = ~@]
  /\ UNCHANGED <<server, ids, now, ticks, nreq, writes, reqs, audioCache, tmpDir, CACHE_DIR,
                 nextSweep, cleared, res, apiLimiter, home, voice>>

\* ---------------------------------------------------------------- voice
\* src/frontend/src/components/voicecommand.jsx: VoiceCommander and the
\* browser's SpeechRecognition.  rec is the state of the recognition object:
\* "idle", "starting" (start() called, "start" not yet fired), "running",
\* "stopping" (stop() called, "end" not yet fired).  timers counts the pending
\* setTimeout(() => recognitionRef.current.start(), 500).  History: userOn
\* (the last click turned listening on), ends (the times recognition ended
\* on its own since then), awaiting (recognition has ended on its own while
\* userOn and has not started since), clicks.
MaxClicks == 3      \* clicks on the microphone button in one behaviour
MaxEnds == 3        \* times recognition ends on its own in one behaviour

VoiceInit ==
  [on |-> TRUE, isListening |-> FALSE, restartOnEnd |-> FALSE, rec |-> "idle", timers |-> 0,
   userOn |-> FALSE, ends |-> 0, awaiting |-> FALSE, clicks |-> 0, total |-> 0]

VoiceStep(v) ==
  /\ voice' = v
  /\ UNCHANGED <<server, ids, now, ticks, nreq, writes, reqs, audioCache, tmpDir, CACHE_DIR,
                 nextSweep, cleared, res, apiLimiter, home, player>>

\* recognition.start(): throws InvalidStateError unless the object is idle
startRec(v) == IF v.rec = "idle" THEN [v EXCEPT !.rec = "starting"] ELSE v

\* recognition.stop(): nothing to stop while idle
stopRec(v) == IF v.rec = "idle" THEN v ELSE [v EXCEPT !.rec = "stopping"]

\* toggleListening (lines 98-123)
toggleListening ==
  /\ voice.on
  /\ voice.clicks < MaxClicks
  /\ LET v == [voice EXCEPT !.clicks = @ + 1]
     IN IF voice.isListening
          THEN VoiceStep(stopRec([v EXCEPT !.restartOnEnd = FALSE, !.userOn = FALSE,
                                           !.awaiting = FALSE]))
        ELSE IF voice.rec = "idle"
          THEN VoiceStep(startRec([v EXCEPT !.restartOnEnd = TRUE, !.userOn = TRUE, !.ends = 0]))
        \* start() threw "already started": stop(), and start() again in 500 ms
        ELSE VoiceStep([stopRec([v EXCEPT !.restartOnEnd = TRUE, !.userOn = TRUE, !.ends = 0])
                          EXCEPT !.timers = @ + 1])

\* recognitionInstance.onstart (lines 36-39)
onstart ==
  /\ voice.on
  /\ voice.rec = "starting"
  /\ VoiceStep([voice EXCEPT !.rec = "running", !.isListening = TRUE, !.awaiting = FALSE])

\* recognitionInstance.onend (lines 41-56)
onendIn(v) ==
  IF v.restartOnEnd
    THEN [v EXCEPT !.isListening = FALSE, !.restartOnEnd = FALSE, !.timers = @ + 1]
    ELSE [v EXCEPT !.isListening = FALSE]

\* recognition ends on its own (silence, the service's time limit, a network
\* error): "end" is fired on a running recognition
onendOwn ==
  /\ voice.on
  /\ voice.rec = "running"
  /\ voice.total < MaxEnds
  /\ VoiceStep(onendIn([voice EXCEPT !.rec = "idle", !.ends = @ + 1, !.total = @ + 1,
                                     !.awaiting = voice.userOn]))

\* "end" is fired after stop()
onendStopped ==
  /\ voice.on
  /\ voice.rec = "stopping"
  /\ VoiceStep(onendIn([voice EXCEPT !.rec = "idle"]))

\* the callback of setTimeout (lines 47-51, 116-120)
restartTimer ==
  /\ voice.on
  /\ voice.timers > 0
  /\ VoiceStep(startRec([voice EXCEPT !.timers = @ - 1]))

\* --------------------------------------------------------- specifications
NoRes == [variant |-> "none", sent |-> FALSE]
NoLimiter == [on |-> FALSE]

InitBase(s, idset, n) ==
  /\ server = s
  /\ ids = idset
  /\ now = 0 /\ ticks = 0 /\ nreq = 0 /\ writes = 0
  /\ reqs = [r \in 1..n |-> NoReq]
  /\ cleared = NotCleared
  /\ audioCache = [key \in CacheKeys |-> NoEntry]
  /\ tmpDir = [p \in TmpPaths |-> Absent]
  /\ CACHE_DIR = [p \in DiskPaths |-> DiskAbsent]
  /\ nextSweep = SWEEP_INTERVAL

NoFrontend == home = NoHome /\ player = NoPlayer /\ voice = NoVoice

InitWith(s, idset, n) ==
  InitBase(s, idset, n) /\ res = NoRes /\ apiLimiter = NoLimiter /\ NoFrontend

Init == InitWith("index", {IdA}, MaxReq)
InitStart == InitWith("start", {IdA}, MaxReq)
InitIds == InitWith("index", {IdA, IdShort, IdBadChar}, MaxReq)
InitPair == InitWith("index", {IdA, IdB, IdDots}, MaxReq)
InitDisk == InitWith("disk", {IdA, IdShort}, MaxReq)
InitFlow == InitWith("disk", {IdA, IdB}, MaxFlowReq)
InitServe == InitWith("disk", {IdA}, MaxReq)
InitLimit ==
  /\ InitBase("limiter", {IdA}, 0)
  /\ res = NoRes
  /\ apiLimiter = [on |-> TRUE, hits |-> [c \in Clients |-> 0],
                   resetTime |-> [c \in Clients |-> 0], reached |-> [c \in Clients |-> 0],
                   health |-> FALSE, last |-> NoCall]
  /\ NoFrontend
InitRange ==
  /\ InitBase("responder", {}, 0)
  /\ apiLimiter = NoLimiter
  /\ NoFrontend
  /\ res \in {[variant |-> v, total |-> t, range |-> h, sent |-> FALSE, out |-> EmptyOut] :
                v \in {"index", "disk"}, t \in Totals, h \in Headers}

InitPage ==
  /\ InitBase("page", {}, 0)
  /\ res = NoRes /\ apiLimiter = NoLimiter
  /\ home = HomeInit /\ player = NoPlayer /\ voice = NoVoice

Next ==
  \/ \E r \in Reqs, id \in ids : AudioRequest(r, id)
  \/ \E r \in Reqs, len \in Sizes : ToolWrite(r, len)
  \/ \E r \in Reqs, ok \in BOOLEAN : ToolExit(r, ok)
  \/ CheckData
  \/ \E d \in TickSteps : Tick(d)

NextRace ==
  \/ \E r \in Reqs, id \in ids : AudioRequest(r, id)
  \/ \E r \in Reqs, len \in Sizes : ToolWriteUpTo(r, len, MaxRaceWrites)
  \/ \E r \in Reqs, ok \in BOOLEAN : ToolExit(r, ok)
  \/ CheckData
  \/ \E d \in TickSteps : Tick(d)

NextHang ==
  \/ Next
  \/ \E r \in Reqs : ToolHangs(r)

NextStart ==
  \/ Next
  \/ \E r \in Reqs : ReadData(r)
  \/ \E r \in Reqs : ReadResolve(r)

NextDisk ==
  \/ \E r \in Reqs, id \in ids : DiskRequest(r, id)
  \/ \E r \in Reqs : StreamFinish(r)
  \/ \E r \in Reqs : StreamError(r)
  \/ \E r \in Reqs, ok \in BOOLEAN, installed \in BOOLEAN : GetInfoDone(r, ok, installed)
  \/ \E r \in Reqs, len \in Sizes : FfmpegData(r, len)
  \/ \E r \in Reqs : FfmpegEnd(r)
  \/ \E r \in Reqs : FfmpegError(r)
  \/ \E r \in Reqs, len \in Sizes : CliWrite(r, len)
  \/ \E r \in Reqs, code \in {0, 1} : CliClose(r, code)
  \/ cleanCache
  \/ \E d \in DiskTickSteps : DiskTick(d)

NextFlow ==
  \/ \E r \in Reqs, id \in ids : DiskRequest(r, id)
  \/ \E r \in Reqs : StreamFinish(r)
  \/ \E r \in Reqs : StreamError(r)
  \/ \E r \in Reqs, ok \in BOOLEAN, installed \in BOOLEAN : GetInfoDone(r, ok, installed)
  \/ \E r \in Reqs, len \in Sizes : FfmpegData(r, len)
  \/ \E r \in Reqs : FfmpegEnd(r)
  \/ \E r \in Reqs : FfmpegError(r)
  \/ \E r \in Reqs, len \in Sizes : CliWrite(r, len)
  \/ \E r \in Reqs, code \in {0, 1} : CliClose(r, code)
  \/ ClearCache

NextServe ==
  \/ \E r \in Reqs, id \in ids : DiskRequest(r, id)
  \/ \E r \in Reqs : StreamFinish(r)
  \/ \E r \in Reqs : StreamError(r)
  \/ \E r \in Reqs, ok \in BOOLEAN, installed \in BOOLEAN : GetInfoDone(r, ok, installed)
  \/ \E r \in Reqs, len \in Sizes : FfmpegData(r, len)
  \/ \E r \in Reqs : FfmpegEnd(r)
  \/ \E r \in Reqs : FfmpegError(r)
  \/ \E r \in Reqs, len \in Sizes : CliWrite(r, len)
  \/ \E r \in Reqs, code \in {0, 1} : CliClose(r, code)

NextRange == SendAudio \/ ServeCached

NextLimit ==
  \/ \E c \in Clients, path \in {AudioPath, HealthPath} : LimitedRequest(c, path)
  \/ LimiterTick

\* backend/index.js
Spec == Init /\ [][Next]_vars
\* backend/start.sh
SpecStart == InitStart /\ [][NextStart]_vars
\* backend/index.js, asked for valid and invalid identifiers
SpecIds == InitIds /\ [][Next]_vars
\* backend/index.js where an external tool may stall: a tool that has not
\* stalled exits in the end and its callback runs, and the periodic check of
\* NodeCache runs; the program has no step that ends a stalled tool
SpecHang ==
  /\ Init /\ [][NextHang]_vars
  /\ WF_vars(CheckData)
  /\ \A r \in 1..MaxReq : WF_vars(\E ok \in BOOLEAN : ToolExit(r, ok))
\* backend/index.js, the tools of two requests both writing their output
SpecRace == Init /\ [][NextRace]_vars
\* backend/index.js, asked for different identifiers
SpecPair == InitPair /\ [][Next]_vars
\* back/index.js
SpecDisk == InitDisk /\ [][NextDisk]_vars
\* back/index.js with POST /clear-cache, the clock standing still
SpecFlow == InitFlow /\ [][NextFlow]_vars
\* back/index.js where every call of a tool and every stream ends or fails
\* in the end: getInfo settles, ffmpeg emits 'end' or 'error', the CLI tool
\* closes, a stream piped into a response ends or emits 'error'
SpecServe ==
  /\ InitServe /\ [][NextServe]_vars
  /\ \A r \in 1..MaxReq :
       /\ WF_vars(\E ok \in BOOLEAN, installed \in BOOLEAN : GetInfoDone(r, ok, installed))
       /\ WF_vars(FfmpegEnd(r) \/ FfmpegError(r))
       /\ WF_vars(\E code \in {0, 1} : CliClose(r, code))
       /\ WF_vars(StreamFinish(r) \/ StreamError(r))
\* the responders of backend/index.js and back/index.js, applied to one request
SpecRange == InitRange /\ [][NextRange]_vars
\* the rate limiter in front of /audio
SpecLimit == InitLimit /\ [][NextLimit]_vars

NextPage ==
  \/ \E items \in Items : searchYouTube(items)
  \/ \E video \in Videos : playAudio(video)
  \/ \E name \in PlaylistNames : createPlaylist(name)
  \/ \E name \in PlaylistNames : deletePlaylist(name)
  \/ \E name \in PlaylistNames, video \in Videos : addToPlaylist(name, video)
  \/ \E name \in PlaylistNames, video \in Videos : removeFromPlaylist(name, video)
  \/ \E name \in PlaylistNames : playPlaylist(name)
  \/ setAutoplayNext
  \/ handleEnded
  \/ togglePlay

SpecPage == InitPage /\ [][NextPage]_vars

InitVoice ==
  /\ InitBase("voice", {}, 0)
  /\ res = NoRes /\ apiLimiter = NoLimiter
  /\ home = NoHome /\ player = NoPlayer /\ voice = VoiceInit

NextVoice ==
  \/ toggleListening
  \/ onstart
  \/ onendOwn
  \/ onendStopped
  \/ restartTimer

\* the browser fires the events it owes and runs the timers that are due;
\* clicks and recognition ending on its own are up to the world
SpecVoice ==
  /\ InitVoice /\ [][NextVoice]_vars
  /\ WF_vars(onstart) /\ WF_vars(onendStopped) /\ WF_vars(restartTimer)

\* ----------------------------------------------------------------- claims

\* C1: a request whose identifier is not 11 characters of [a-zA-Z0-9_-] is
\* answered with 400, and neither the cache lookup nor a strategy has run.
InvalidIdRejected ==
  \A r \in Reqs :
    (reqs[r].pc # "idle" /\ ~IsValidId(reqs[r].videoId))
      => /\ reqs[r].pc = "done" /\ reqs[r].status = 400
         /\ reqs[r].tried = <<>> /\ ~reqs[r].hit

\* C2: a fetch that arrives at most stdTTL seconds after an earlier fetch of
\* the same identifier cached its payload is a hit: it is answered 200 with the
\* very payload that fetch cached, and no strategy of extractAudio is started.
FreshFetchIsHit ==
  \A r \in Reqs :
    reqs[r].fresh
      => /\ reqs[r].hit /\ reqs[r].tried = <<>> /\ reqs[r].okAt = 0
         /\ reqs[r].pc = "done" /\ reqs[r].status = 200
         /\ \E q \in 1..(r - 1) :
              /\ reqs[q].videoId = reqs[r].videoId
              /\ reqs[q].wroteAt >= 0
              /\ reqs[q].buf = reqs[r].body

\* C2's case: a hit exactly stdTTL seconds after the insertion
FreshFetchAtTTL ==
  \E r \in Reqs :
    /\ reqs[r].fresh /\ reqs[r].hit
    /\ \E q \in 1..(r - 1) : reqs[q].wroteAt >= 0 /\ now = reqs[q].wroteAt + stdTTL * 1000

\* C3: a fetch that arrives more than stdTTL seconds after the identifier was
\* last cached is a miss, and extractAudio is called: strategy 1 is started.
StaleFetchExtracts ==
  \A r \in Reqs :
    reqs[r].stale
      => /\ ~reqs[r].hit
         /\ reqs[r].tried # <<>> /\ reqs[r].tried[1] = 1

\* C3's case: a fetch one millisecond past the TTL that runs the chain again
StaleFetchSeen ==
  \E r \in Reqs :
    /\ reqs[r].stale /\ ~reqs[r].hit /\ reqs[r].k >= 1
    /\ \E q \in 1..(r - 1) : now = reqs[q].wroteAt + stdTTL * 1000 + 1

\* C4: no cache hit of the disk server serves a file whose modification time
\* is more than 24 hours in the past.
HitWithinOneDay ==
  \A r \in Reqs : reqs[r].hit => reqs[r].age <= ONE_DAY

\* C5: the step in which the last strategy of a request fails answers the
\* request with 500 and leaves the cache as it was; the request never calls
\* audioCache.set.
AllFailedLeavesCache ==
  [][\A r \in Reqs :
       (reqs'[r].allFailed /\ ~reqs[r].allFailed)
         => /\ reqs'[r].pc = "done" /\ reqs'[r].status = 500
            /\ reqs'[r].body = Absent /\ reqs'[r].wroteAt = -1
            /\ audioCache' = audioCache]_vars

\* C5's case: a request whose strategies have all been tried and have failed
AllFailedSeen ==
  \E r \in Reqs :
    /\ reqs[r].allFailed /\ reqs[r].status = 500
    /\ Len(reqs[r].tried) = NumStrategies
    /\ reqs[r].failed = 1..NumStrategies

\* C6: the strategies started by a call are 1, 2, 3, ... in this order, each
\* one only after all before it have failed, and none after one has succeeded.
FixedOrder ==
  \A r \in Reqs :
    LET q == reqs[r]
        n == Len(q.tried)
    IN /\ n <= NumStrategies
       /\ \A i \in 1..n : q.tried[i] = i
       /\ \A i \in 1..(n - 1) : i \in q.failed
       /\ q.pc \in {"exec", "url", "curl", "wget", "ffmpeg", "read", "readc"} => q.k = n
       /\ q.okAt # 0 => q.okAt = n /\ q.okAt \notin q.failed /\ q.pc = "done"

\* C6's case: a call that succeeded at strategy 2 after strategy 1 failed
SecondStrategySucceeded ==
  \E r \in Reqs : reqs[r].okAt = 2 /\ reqs[r].tried = <<1, 2>> /\ reqs[r].failed = {1}

\* C7: whenever a strategy other than the last has failed, the next strategy
\* has been started in the same call.
FailureContinuesChain ==
  \A r \in Reqs :
    \A k \in reqs[r].failed :
      k < NumStrategies => \E i \in 1..Len(reqs[r].tried) : reqs[r].tried[i] = k + 1

\* C7's case: strategies 1 to 3 failed one after the other and 4 is running
ThreeFailuresThenFourth ==
  \E r \in Reqs : reqs[r].failed = {1, 2, 3} /\ reqs[r].k = 4 /\ reqs[r].pc = "url"

\* C8: extractAudio stops only at an output of at least MIN_LENGTH bytes: the
\* strategy whose output it returned left a file of non-trivial size.
StopsAtNonTrivialOutput ==
  \A r \in Reqs : reqs[r].okAt # 0 => reqs[r].buf.len >= MIN_LENGTH

\* C9: every cache entry has at least MIN_LENGTH bytes, and so has the body
\* of every successful response.
NoSmallPayload ==
  /\ \A key \in CacheKeys :
       audioCache[key] # NoEntry => audioCache[key].v.len >= MIN_LENGTH
  /\ \A r \in Reqs : reqs[r].status = 200 => reqs[r].body.len >= MIN_LENGTH

\* C10: when strategies 1 and 2 failed and strategy 3 succeeded, the buffer
\* returned is the file strategy 3 of this call wrote, and no file written by
\* strategy 1 or 2 of this call is left in the scratch directory.
ThirdStrategyOwnOutput ==
  \A r \in Reqs :
    (reqs[r].okAt = 3 /\ {1, 2} \subseteq reqs[r].failed)
      => /\ reqs[r].buf.by = r /\ reqs[r].buf.k = 3
         /\ \A p \in TmpPaths : ~(tmpDir[p].by = r /\ tmpDir[p].k \in {1, 2})

\* C11: once an extractAudio call has returned or thrown and no other
\* extraction is in flight, the scratch directory holds no file of that call.
ScratchDirClean ==
  (\A q \in Reqs : reqs[q].pc \in {"idle", "done"})
    => \A r \in Reqs : \A p \in TmpPaths : ~(Exists(tmpDir[p]) /\ tmpDir[p].by = r)

\* C12: for a header bytes=s-e with 0 <= s <= e < total, the NodeCache
\* responder answers 206 with Content-Range 'bytes s-e/total', Accept-Ranges
\* 'bytes', Content-Length e-s+1 and the bytes s..e of the payload as body.
ClosedRangeServed ==
  \A s \in TokenNumbers, e \in TokenNumbers :
    (/\ res.variant = "index" /\ res.sent
     /\ res.range = BYTES_EQ \o ToStr(s) \o <<"-">> \o ToStr(e)
     /\ s <= e /\ e < res.total)
      => /\ res.out.status = 206
         /\ res.out.ContentRange = <<"b", "y", "t", "e", "s", " ">> \o ToStr(s) \o <<"-">>
                                     \o ToStr(e) \o <<"/">> \o ToStr(res.total)
         /\ res.out.AcceptRanges = "bytes"
         /\ res.out.ContentLength = Num(e - s + 1)
         /\ res.out.body = [i \in 1..(e - s + 1) |-> Payload(res.total)[s + i]]

\* C12's case: bytes=0-99 of a 1000-byte payload, answered with 100 bytes
FirstHundredBytes ==
  /\ res.variant = "index" /\ res.sent /\ res.total = MIN_LENGTH
  /\ res.range = BYTES_EQ \o <<"0", "-", "9", "9">>
  /\ res.out.ContentLength = Num(99 + 1) /\ Len(res.out.body) = 99 + 1

\* C13: for a header bytes=s- with 0 <= s < total, both responders answer 206
\* with Content-Range 'bytes s-(total-1)/total', Content-Length total-s and
\* the payload from byte s through its last byte as body.
OpenRangeServed ==
  \A s \in TokenNumbers :
    (/\ res.variant \in {"index", "disk"} /\ res.sent
     /\ res.range = BYTES_EQ \o ToStr(s) \o <<"-">>
     /\ s < res.total)
      => /\ res.out.status = 206
         /\ res.out.ContentRange = <<"b", "y", "t", "e", "s", " ">> \o ToStr(s) \o <<"-">>
                                     \o ToStr(res.total - 1) \o <<"/">> \o ToStr(res.total)
         /\ res.out.ContentLength = Num(res.total - s)
         /\ res.out.body = [i \in 1..(res.total - s) |-> Payload(res.total)[s + i]]

\* C13's case: bytes=10- of an 11-byte payload on the disk server: one byte
OpenRangeLastByte ==
  /\ res.variant = "disk" /\ res.sent /\ res.total = 11
  /\ res.range = BYTES_EQ \o <<"1", "0", "-">>
  /\ res.out.status = 206 /\ Len(res.out.body) = 1

\* C14: without a Range header the NodeCache responder answers 200 with
\* Content-Type audio/mpeg, Content-Length = the payload's size and the whole
\* payload as body.
NoRangeFullPayload ==
  (res.variant = "index" /\ res.sent /\ res.range = NoHeader)
    => /\ res.out.status = 200
       /\ res.out.ContentType = "audio/mpeg"
       /\ res.out.ContentLength = Num(res.total)
       /\ res.out.body = Payload(res.total)
       /\ res.out.ContentRange = NotSet

\* C14's case: a 1000-byte payload sent whole
FullPayloadSent ==
  /\ res.variant = "index" /\ res.sent /\ res.range = NoHeader
  /\ res.total = MIN_LENGTH /\ res.out.status = 200 /\ Len(res.out.body) = MIN_LENGTH

FetchAfterClearMisses ==
  \A r \in Reqs : reqs[r].postClear => ~reqs[r].hit

\* C16 amended: the first fetch, after a clear, of an identifier that was
\* cached at the clear is a miss and starts an extraction, unless a conversion
\* has put the identifier's cache file back since the clear.
FetchAfterClearMissesUnlessRepublished ==
  \A r \in Reqs :
    (reqs[r].postClear /\ ~reqs[r].republished)
      => /\ ~reqs[r].hit
         /\ reqs[r].pc \in {"getInfo", "crashed"} \/ reqs[r].tried # <<>>

\* C16's case: an identifier cached, cleared, then fetched again and missed
MissAfterClear ==
  \E r \in Reqs :
    /\ reqs[r].postClear /\ ~reqs[r].republished /\ ~reqs[r].hit /\ reqs[r].pc = "getInfo"
    /\ \E q \in Reqs : q < r /\ reqs[q].videoId = reqs[r].videoId /\ reqs[q].okAt # 0

\* C17: when extractAudio has thrown, the request is answered once, with
\* status 500 and a text that carries the message of the error thrown.
FailureAnswered500 ==
  \A r \in Reqs :
    reqs[r].allFailed
      => /\ reqs[r].pc = "done" /\ reqs[r].status = 500
         /\ reqs[r].msg = <<"Failed to extract audio: ", reqs[r].thrown>>
         /\ reqs[r].thrown # ""
         /\ reqs[r].heads = 1 /\ ~reqs[r].lateError /\ reqs[r].body = Absent

\* C17's case: a request answered 500 after its four strategies failed
FailureMessageSent ==
  \E r \in Reqs :
    /\ reqs[r].allFailed /\ reqs[r].heads = 1
    /\ reqs[r].msg = <<"Failed to extract audio: ", ALL_FAILED>>

\* C18: when every strategy has failed, the error extractAudio throws carries
\* the message of the last error caught in the chain.
ThrownIsLastError ==
  \A r \in Reqs :
    (reqs[r].allFailed /\ reqs[r].lastErr # "") => reqs[r].thrown = reqs[r].lastErr

\* C20: no request has more than one response head sent, and no status is
\* ever sent into a response whose head is out.
OneHeadPerRequest ==
  \A r \in Reqs : reqs[r].heads <= 1 /\ ~reqs[r].lateError

\* C20's case: ffmpeg failed after the head of the response had been sent
ErrorAfterHead ==
  \E r \in Reqs :
    /\ reqs[r].pc = "done" /\ reqs[r].failed = {1} /\ reqs[r].headersSent
    /\ reqs[r].status = 200 /\ reqs[r].heads = 1

\* C19: in a window of the limiter at most max requests of a client reach the
\* /audio handler; a request beyond them is refused (429) and not handled;
\* a request to /health is neither counted nor refused.
RateLimited ==
  /\ \A c \in Clients :
       /\ apiLimiter.reached[c] <= max
       /\ apiLimiter.reached[c] = IF apiLimiter.hits[c] > max THEN max ELSE apiLimiter.hits[c]
  /\ ~apiLimiter.health
  /\ apiLimiter.last.path = HealthPath
       => apiLimiter.last.status = 200 /\ apiLimiter.last.handled
  /\ (apiLimiter.last.path = AudioPath /\ apiLimiter.hits[apiLimiter.last.client] > max)
       => apiLimiter.last.status = 429 /\ ~apiLimiter.last.handled

\* C19's case: the 31st request of a client in a window refused, while the
\* other client is still served
ThirtyFirstRefused ==
  \E c \in Clients, d \in Clients :
    /\ c # d
    /\ apiLimiter.hits[c] = max + 1 /\ apiLimiter.reached[c] = max
    /\ apiLimiter.last = [client |-> c, path |-> AudioPath, status |-> 429, handled |-> FALSE]
    /\ apiLimiter.hits[d] > 0 /\ apiLimiter.reached[d] = apiLimiter.hits[d]

\* C21: nothing limits the extractions of an identifier to one: every request
\* that misses the cache starts strategy 1 of an extractAudio call of its own,
\* whatever other calls are in flight.
MissStartsExtraction ==
  [][\A r \in Reqs :
       (reqs[r].pc = "idle" /\ reqs'[r].pc # "idle" /\ ~reqs'[r].hit)
         => reqs'[r].pc = "exec" /\ reqs'[r].tried = <<1>>]_vars

\* C21's case: two requests for one identifier have both missed the cache and
\* the extractAudio calls of both are in flight
TwoExtractionsInFlight ==
  \E r \in Reqs, q \in Reqs :
    /\ r < q /\ reqs[r].videoId = reqs[q].videoId
    /\ ~reqs[r].hit /\ ~reqs[q].hit
    /\ reqs[r].pc \in InFlight /\ reqs[q].pc \in InFlight

\* C22: the files of a call lie at the paths made from its identifier alone,
\* and a call that starts removes the file at its output path, whichever call
\* wrote it.
SharedOutputPath ==
  [][/\ \A p \in TmpPaths :
          Exists(tmpDir'[p]) => p[2] = pathJoin(reqs'[tmpDir'[p].by].videoId)
     /\ \A r \in Reqs :
          (reqs[r].pc = "idle" /\ reqs'[r].pc \in InFlight)
            => ~Exists(tmpDir'[outputPath(reqs'[r].videoId)])]_vars

\* C22's case: the first call still awaits the tool of strategy 1, the tool
\* has written the output file, and the second call, on starting, has removed it
OutputDeletedUnderFirst ==
  \E r \in Reqs, q \in Reqs :
    /\ r < q /\ reqs[r].videoId = reqs[q].videoId
    /\ reqs[r].pc = "exec" /\ reqs[r].tried = <<1>>
    /\ reqs[q].pc = "exec" /\ reqs[q].tried = <<1>>
    /\ writes = 1
    /\ ~Exists(tmpDir[outputPath(reqs[r].videoId)])

\* C23: a step of the request for one identifier neither removes nor
\* overwrites a file of an extraction in flight for another identifier, and
\* never sets the cache entry of another identifier.
DifferentIdsIndependent ==
  [][\A a \in Reqs :
       /\ \A p \in TmpPaths :
            (/\ Exists(tmpDir[p]) /\ tmpDir'[p] # tmpDir[p]
             /\ reqs[tmpDir[p].by].pc \in InFlight
             /\ reqs'[a] # reqs[a] \/ (writes' # writes /\ tmpDir'[p].by = a))
              => reqs'[a].videoId = reqs[tmpDir[p].by].videoId
       /\ \A key \in CacheKeys :
            (/\ audioCache'[key] # audioCache[key] /\ audioCache'[key] # NoEntry
             /\ reqs'[a] # reqs[a])
              => key = cacheKey(reqs'[a].videoId)]_vars

\* C24: as long as a cache entry has not expired, no step replaces it.
EntryImmutable ==
  [][\A key \in CacheKeys :
       (audioCache[key] # NoEntry /\ audioCache[key].t >= now)
         => audioCache'[key] = audioCache[key]]_vars

\* C25: a cache hit leaves the cache as it is, and the expiry time of every
\* entry is the time of a set of its identifier plus stdTTL seconds.
ExpiryFixedAtInsertion ==
  [][/\ \A r \in Reqs :
          (reqs[r].pc = "idle" /\ reqs'[r].hit) => audioCache' = audioCache
     /\ \A key \in CacheKeys :
          audioCache'[key] # NoEntry
            => \E r \in Reqs : /\ cacheKey(reqs'[r].videoId) = key
                               /\ reqs'[r].wroteAt >= 0
                               /\ audioCache'[key].t = reqs'[r].wroteAt + stdTTL * 1000]_vars

\* C25's case: an entry was read by a hit, and one millisecond past stdTTL
\* seconds after its insertion it has expired
ReadEntryExpired ==
  \E r \in Reqs, q \in Reqs :
    /\ reqs[r].hit /\ reqs[q].wroteAt >= 0 /\ reqs[q].videoId = reqs[r].videoId
    /\ now = reqs[q].wroteAt + stdTTL * 1000 + 1
    /\ audioCache[cacheKey(reqs[r].videoId)] = NoEntry

\* C26: every extractAudio call that is in flight eventually returns or
\* throws, also when an external tool never exits.
EveryCallEnds ==
  \A r \in 1..MaxReq : (reqs[r].pc \in InFlight) ~> (reqs[r].pc = "done")

\* C26, the other way round: a call whose tools all exit does end
CallEndsUnlessHung ==
  \A r \in 1..MaxReq : (reqs[r].pc \in InFlight) ~> (reqs[r].pc = "done" \/ reqs[r].hung)

\* C27: on the disk server, whenever the ytdl-core strategy has failed, the
\* CLI strategy was started unless no CLI tool is installed, and a valid
\* request is answered 500 only when both have failed or the CLI tool is missing.
FallbackAlwaysTried ==
  \A r \in Reqs :
    /\ (reqs[r].pc = "done" /\ 1 \in reqs[r].failed)
         => (reqs[r].noCli \/ \E i \in 1..Len(reqs[r].tried) : reqs[r].tried[i] = 2)
    /\ (reqs[r].status = 500 /\ IsValidId(reqs[r].videoId))
         => (reqs[r].noCli \/ reqs[r].failed = {1, 2})

\* C28: on the disk server a request whose conversion or CLI tool failed
\* leaves no file of its own in the cache directory.
FailureLeavesNoFile ==
  \A r \in Reqs :
    (reqs[r].pc = "done" /\ reqs[r].failed # {} /\ reqs[r].okAt = 0)
      => \A p \in DiskPaths : ~(Exists(CACHE_DIR[p]) /\ CACHE_DIR[p].by = r)

\* C29: the step of POST /clear-cache leaves every temp file as it is and
\* counts cache files only.
ClearSparesTempFiles ==
  [][cleared'.n # cleared.n
       => /\ \A p \in DiskPaths : p[1] # "mp3" => CACHE_DIR'[p] = CACHE_DIR[p]
          /\ cleared'.deletedFiles =
               Cardinality({p \in DiskPaths : p[1] = "mp3" /\ Exists(CACHE_DIR[p])})]_vars

\* C30: in every answer 200 or 206 to a request without a Range header or
\* with one whose tokens parse as integers, Content-Length is the number of
\* bytes of the body.
ContentLengthIsBodyLength ==
  (/\ res.variant \in {"index", "disk"} /\ res.sent
   /\ res.out.status \in {200, 206}
   /\ \/ res.range = NoHeader
      \/ LET parts == Split(Replace(res.range))
         IN ~parseInt(parts[1]).nan /\ ~EndOf(parts, res.total).nan)
    => res.out.ContentLength = Num(Len(res.out.body))

\* C31: every cache entry under audio-<id> holds the buffer that an
\* extractAudio call of a request for <id> returned and that request answered
\* with 200; a request whose extraction failed has set no entry.
EntryFromOwnExtraction ==
  /\ \A key \in CacheKeys :
       audioCache[key] # NoEntry
         => \E r \in Reqs : /\ cacheKey(reqs[r].videoId) = key
                            /\ reqs[r].okAt # 0 /\ reqs[r].wroteAt >= 0
                            /\ reqs[r].buf = audioCache[key].v
                            /\ reqs[r].status = 200 /\ ~reqs[r].allFailed
  /\ \A r \in Reqs :
       (reqs[r].allFailed \/ reqs[r].status = 500) => reqs[r].wroteAt = -1

\* C31's case: one identifier's extraction succeeded and is cached, another
\* identifier's extraction failed and has no entry
EntryOnlyForSuccess ==
  \E r \in Reqs, q \in Reqs :
    /\ reqs[r].videoId = IdB /\ reqs[r].okAt # 0
    /\ audioCache[cacheKey(IdB)].v = reqs[r].buf
    /\ reqs[q].videoId = IdA /\ reqs[q].allFailed
    /\ audioCache[cacheKey(IdA)] = NoEntry

\* C32: on the disk server, whenever the cache file of an identifier exists,
\* the conversion that wrote its content has ended with success.
CacheFileComplete ==
  \A id \in AllIds :
    LET f == CACHE_DIR[cacheFilePath(id)]
    IN Exists(f) => reqs[f.by].okAt # 0

\* C33: on the disk server every request that has arrived gets its response
\* completed in the end: a status is sent and the body is ended.
EveryResponseCompleted ==
  \A r \in 1..MaxReq :
    (reqs[r].pc # "idle") ~> (reqs[r].status # 0 /\ reqs[r].ended)

\* C33, as far as it goes: the response is completed unless a stream piped
\* into a response has emitted 'error'
CompletedUnlessStreamError ==
  \A r \in 1..MaxReq :
    (reqs[r].pc # "idle") ~> ((reqs[r].status # 0 /\ reqs[r].ended) \/ Crashed)

\* C34: in the five-strategy server a call that has read the output file of
\* its strategy into memory returns that buffer and starts no further strategy.
ReadBufferReturned ==
  [][\A r \in Reqs :
       (reqs[r].pc = "readc" /\ reqs'[r].pc # "readc")
         => /\ reqs'[r].okAt = reqs[r].k
            /\ reqs'[r].tried = reqs[r].tried
            /\ reqs'[r].buf = reqs[r].buf]_vars

\* -------------------------------------------------------- frontend claims
NoTwice(list) == \A i, j \in DOMAIN list : list[i] = list[j] => i = j

\* C35: whatever createPlaylist, addToPlaylist, removeFromPlaylist and
\* deletePlaylist have done, no playlist holds a videoId twice, and a step of
\* addToPlaylist for a video the playlist already holds changes no playlist.
NoVideoTwice ==
  /\ [](home.on => \A n \in DOMAIN home.playlists : NoTwice(home.playlists[n]))
  /\ [][\A n \in PlaylistNames, v \in Videos :
          (addToPlaylist(n, v) /\ v \in Range(home.playlists[n]))
            => home'.playlists = home.playlists]_vars

\* a playlist of two videos next to one whose only video is among the search
\* results, so that "Add to Playlist" is offered for a video already in it
AddOfPresentVideoOffered ==
  /\ home.on
  /\ \E n, m \in DOMAIN home.playlists :
       /\ Len(home.playlists[m]) = 2
       /\ Len(home.playlists[n]) = 1
       /\ home.playlists[n][1] \in Range(home.results)
       /\ ENABLED addToPlaylist(n, home.playlists[n][1])

\* C36: a step of createPlaylist leaves every playlist that existed before it
\* in place with the videos it had, also the one of the name being created.
CreateKeepsPlaylists ==
  [][\A name \in PlaylistNames :
       createPlaylist(name)
         => \A n \in DOMAIN home.playlists :
              n \in DOMAIN home'.playlists /\ home'.playlists[n] = home.playlists[n]]_vars

\* the same for the playlists of another name than the one created
CreateKeepsOtherPlaylists ==
  [][\A name \in PlaylistNames :
       createPlaylist(name)
         => \A n \in DOMAIN home.playlists \ {name} :
              n \in DOMAIN home'.playlists /\ home'.playlists[n] = home.playlists[n]]_vars

\* the track-end step started the video next / started nothing
EndStarted(next) == home'.currentVideo = next /\ player'.src = next /\ player'.audio = "playing"
EndStartedNothing == home'.currentVideo = home.currentVideo /\ player'.audio = "ended"
EndStartsAfter(list) ==
  IF After(list, home.currentVideo) # Null
    THEN EndStarted(After(list, home.currentVideo))
    ELSE EndStartedNothing

\* C37: when a track ends with autoplay on, a track started from the search
\* results is followed by the search result after it, whatever playlist was
\* played before, and a track started from a playlist is followed by the
\* entry after it in that playlist, or by nothing after the last entry.
TrackEndFollowsOrigin ==
  [][(handleEnded /\ home.autoplayNext)
       => /\ (home.playingFrom = "search" /\ home.currentVideo \in Range(home.results))
               => EndStartsAfter(home.results)
          /\ (/\ home.playingFrom = "playlist"
              /\ home.currentPlaylist # Null
              /\ home.currentVideo \in Range(home.playlists[home.currentPlaylist]))
               => EndStartsAfter(home.playlists[home.currentPlaylist])]_vars

\* the same where no playlist is current when a track of the search results ends
TrackEndFollowsOriginNoPlaylist ==
  [][(handleEnded /\ home.autoplayNext)
       => /\ (/\ home.playingFrom = "search"
              /\ home.currentPlaylist = Null
              /\ home.currentVideo \in Range(home.results))
               => EndStartsAfter(home.results)
          /\ (/\ home.playingFrom = "playlist"
              /\ home.currentPlaylist # Null
              /\ home.currentVideo \in Range(home.playlists[home.currentPlaylist]))
               => EndStartsAfter(home.playlists[home.currentPlaylist])]_vars

\* C38: the player's playing flag is true exactly while the audio element is
\* playing, and so a togglePlay click pauses audio that plays and starts
\* audio that does not.
PlayingFlagAgrees ==
  /\ [](player.mounted => (player.playing <=> player.audio = "playing"))
  /\ [][togglePlay => IF player.audio = "playing"
                        THEN player'.audio = "paused"
                        ELSE player'.audio = "playing"]_vars

\* the same for the steps that do not load a track: the flag stays in
\* agreement over a click and over a track end that starts nothing
PlayingFlagAgreesWhileSameTrack ==
  [][(player.mounted /\ player'.src = player.src /\ home'.currentVideo = home.currentVideo
        /\ (player.playing <=> player.audio = "playing"))
       => (player'.playing <=> player'.audio = "playing")]_vars

\* C39: while the user has listening turned on, every time recognition ends
\* on its own it is started again (or the user turns listening off).
EveryEndRestarted == (voice.on /\ voice.awaiting) ~> ~voice.awaiting

\* the same for an end on which the handler still found restartOnEnd set
FlaggedEndRestarted == (voice.on /\ voice.awaiting /\ voice.timers > 0) ~> ~voice.awaiting
====
